---- MODULE Spec2Model ----
(***************************************************************************)
(* Model of subiquity/server/ubuntu_advantage.py: the two query strategies *)
(* (MockedUAInterfaceStrategy, UAClientUAInterfaceStrategy) and the        *)
(* UAInterface built on one of them.                                       *)
(*                                                                         *)
(* Each coroutine is at one of: "idle" (not called), "sleep" (awaiting     *)
(* asyncio.sleep), "run" (awaiting utils.arun_command), "done" (returned   *)
(* or raised; `outcome` is what the caller gets).                          *)
(*                                                                         *)
(* Conventions.  A Python str whose characters matter (a token, an         *)
(* `expires` value) is a sequence of pieces; other strings are atoms.      *)
(* A JSON value is [t |-> type tag, v |-> payload]; a dict's payload is a  *)
(* function over the keys it holds, a list's payload a sequence.  The      *)
(* result of a call is a record `kind` = "return" or the exception raised. *)
(* Time is counted in hours since the epoch.                               *)
(***************************************************************************)
EXTENDS Integers, Sequences, FiniteSets, TLC

VARIABLES
    strategy,   \* UAInterface.strategy: "mocked" or "uaclient"
    tz,         \* the host's local time zone, hours east of UTC
    clock,      \* the host's clock: the current instant (UTC epoch hours)
    calls       \* the get_subscription / get_subscription_status coroutines

vars == <<strategy, tz, clock, calls>>

-----------------------------------------------------------------------------
(* Bounds *)

MaxTokenLen == 2
MaxErrors == 2
MaxServices == 2
MaxClock == 5
MaxCalls == 2

TokenChars == {"x", "i", "f", "a"}
TimeZones == {-1, 0, 1}
MinClock == 2

SeqsUpTo(S, n) == UNION {[1..k -> S] : k \in 0..n}

-----------------------------------------------------------------------------
(* JSON values and Python results *)

JStr(s) == [t |-> "str", v |-> s]
JList(s) == [t |-> "list", v |-> s]
JObj(f) == [t |-> "obj", v |-> f]
JNull == [t |-> "null", v |-> <<>>]
None == [t |-> "None", v |-> <<>>]

HasKey(d, k) == d.t = "obj" /\ k \in DOMAIN d.v

Return(value) ==
    [kind |-> "return", token |-> <<>>, message |-> "", expires |-> None,
     value |-> value]

Raise(kind) ==
    [kind |-> kind, token |-> <<>>, message |-> "", expires |-> None,
     value |-> None]

InvalidTokenError(token) ==
    [kind |-> "InvalidTokenError", token |-> token, message |-> "",
     expires |-> None, value |-> None]

ExpiredTokenError(token, expires) ==
    [kind |-> "ExpiredTokenError", token |-> token, message |-> "",
     expires |-> expires, value |-> None]

CheckSubscriptionError(token, message) ==
    [kind |-> "CheckSubscriptionError", token |-> token, message |-> message,
     expires |-> None, value |-> None]

Pending == Raise("pending")

-----------------------------------------------------------------------------
(* Fixture files of the simulated strategy *)

Service(name, available, entitled, auto_enabled) ==
    JObj([name |-> JStr(name), description |-> JStr(name),
          available |-> JStr(available), entitled |-> JStr(entitled),
          auto_enabled |-> JStr(auto_enabled)])

Info(expires, services) ==
    JObj([expires |-> JStr(expires),
          account |-> JObj([name |-> JStr("account")]),
          contract |-> JObj([name |-> JStr("contract")]),
          services |-> JList(services)])

ExpiredFixture ==
    Info(<<"T0", "+", "00:00">>,
         <<Service("esm-infra", "yes", "yes", "yes"),
           Service("fips", "yes", "no", "no")>>)

ValidFixture ==
    Info(<<"T4", "+", "00:00">>,
         <<Service("esm-infra", "yes", "yes", "yes"),
           Service("fips", "yes", "no", "no"),
           Service("livepatch", "yes", "yes", "no")>>)

Fixture(path) ==
    IF path = "examples/uaclient-status-expired.json"
    THEN ExpiredFixture ELSE ValidFixture

-----------------------------------------------------------------------------
(* MockedUAInterfaceStrategy.query_info, after the sleep *)

Mut_Mocked_query_info(token) ==
    IF token = <<>> THEN InvalidTokenError(token)
    ELSE IF token[Len(token)] = "x"
         THEN Return(Fixture("examples/uaclient-status-expired.json"))
    ELSE IF token[Len(token)] = "i" THEN InvalidTokenError(token)
    ELSE IF token[Len(token)] = "f" THEN CheckSubscriptionError(token, "")
    ELSE Return(Fixture("examples/uaclient-status-valid.json"))

Mocked_query_info(token) ==
    IF token = <<>> THEN InvalidTokenError(token)
    ELSE IF token[1] = "x"
         THEN Return(Fixture("examples/uaclient-status-expired.json"))
    ELSE IF token[1] = "i" THEN InvalidTokenError(token)
    ELSE IF token[1] = "f" THEN CheckSubscriptionError(token, "")
    ELSE Return(Fixture("examples/uaclient-status-valid.json"))

-----------------------------------------------------------------------------
(* UAClientUAInterfaceStrategy.query_info *)

Executable == <<"ubuntu-advantage">>

Command(token) ==
    Executable \o <<"status", "--format", "json", "--simulate-with-token", token>>

Mut_UAClient_runs_command(token) == TRUE

\* Before the await: TRUE when the command is run, FALSE when the call
\* raises InvalidTokenError without running it.
UAClient_runs_command(token) == token # <<>>

NotJson == [t |-> "text", v |-> <<>>]
JsonText(doc) == [t |-> "json", v |-> doc]

\* json.loads: the document, or JSONDecodeError.
json_loads(stdout) ==
    IF stdout.t = "json" THEN Return(stdout.v) ELSE Raise("JSONDecodeError")

InvalidTokenCode == "attach-invalid-token"

\* The for loop of lines 156-160 from entry i on; the result is the
\* exception that ends it ("none" when it runs to the end) and the flag.
RECURSIVE ScanErrors(_, _, _)
ScanErrors(errors, i, token_invalid) ==
    IF i > Len(errors) THEN [exc |-> "none", token_invalid |-> token_invalid]
    ELSE LET error == errors[i] IN
         IF error.t # "obj"
         THEN [exc |-> "TypeError", token_invalid |-> token_invalid]
         ELSE IF ~HasKey(error, "message_code")
         THEN [exc |-> "KeyError", token_invalid |-> token_invalid]
         ELSE LET flag == token_invalid
                          \/ error.v["message_code"] = JStr(InvalidTokenCode)
              IN IF ~HasKey(error, "message")
                 THEN [exc |-> "KeyError", token_invalid |-> flag]
                 ELSE ScanErrors(errors, i + 1, flag)

\* What `for error in x` iterates over: a list's items, a dict's keys, a
\* str's characters; anything else is not iterable.
Iterate(x) ==
    IF x.t = "list" THEN Return(JList(x.v))
    ELSE IF x.t = "obj"
         THEN Return(JList([i \in 1..Cardinality(DOMAIN x.v) |-> JStr("key")]))
    ELSE IF x.t = "str"
         THEN Return(JList([i \in 1..Len(x.v) |-> JStr(<<x.v[i]>>)]))
    ELSE Raise("TypeError")

\* Lines 154-160: the with block, KeyError suppressed.
InspectErrors(data) ==
    IF data.t # "obj" THEN [exc |-> "TypeError", token_invalid |-> FALSE]
    ELSE IF ~HasKey(data, "errors")
    THEN [exc |-> "none", token_invalid |-> FALSE]
    ELSE LET it == Iterate(data.v["errors"]) IN
         IF it.kind # "return"
         THEN [exc |-> "TypeError", token_invalid |-> FALSE]
         ELSE LET r == ScanErrors(it.value.v, 1, FALSE) IN
              IF r.exc = "KeyError"
              THEN [exc |-> "none", token_invalid |-> r.token_invalid]
              ELSE r

UnableMessage == "Unable to retrieve subscription information."

\* Lines 142-168: after arun_command returned proc.
UAClient_classify(token, proc) ==
    LET generic == CheckSubscriptionError(token, UnableMessage)
        parsed == json_loads(proc.stdout)
    IN IF proc.returncode = 0
       THEN IF parsed.kind = "return" THEN parsed ELSE generic
       ELSE IF proc.returncode = 1
       THEN IF parsed.kind # "return" THEN generic
            ELSE LET r == InspectErrors(parsed.value) IN
                 IF r.exc # "none" THEN Raise(r.exc)
                 ELSE IF r.token_invalid THEN InvalidTokenError(token)
                 ELSE generic
       ELSE generic

-----------------------------------------------------------------------------
(* Timestamps *)

BodyHours ==
    [b \in {"T0", "T1", "T2", "T3", "T4", "T5"} |->
        CASE b = "T0" -> 0 [] b = "T1" -> 1 [] b = "T2" -> 2
          [] b = "T3" -> 3 [] b = "T4" -> 4 [] b = "T5" -> 5]

OffsetHours ==
    [o \in {"00:00", "01:00"} |-> IF o = "00:00" THEN 0 ELSE 1]

\* str.replace(old, new): every piece equal to old gives way to new.
RECURSIVE Replace(_, _, _)
Replace(s, old, new) ==
    IF s = <<>> THEN <<>>
    ELSE (IF Head(s) = old THEN new ELSE <<Head(s)>>)
         \o Replace(Tail(s), old, new)

Mut_normalize_expires(s) == s

\* Line 190: .replace("Z", "+00:00").
normalize_expires(s) == Replace(s, "Z", <<"+", "00:00">>)

\* datetime.fromisoformat: date and time, then nothing (a naive datetime)
\* or a sign and an hh:mm offset (an aware one); "Z" is not accepted.
fromisoformat(s) ==
    IF Len(s) = 1 /\ s[1] \in DOMAIN BodyHours
    THEN Return([aware |-> FALSE, hours |-> BodyHours[s[1]], utcoffset |-> 0])
    ELSE IF /\ Len(s) = 3
            /\ s[1] \in DOMAIN BodyHours
            /\ s[2] \in {"+", "-"}
            /\ s[3] \in DOMAIN OffsetHours
    THEN Return([aware |-> TRUE, hours |-> BodyHours[s[1]],
                 utcoffset |-> IF s[2] = "+" THEN OffsetHours[s[3]]
                               ELSE 0 - OffsetHours[s[3]]])
    ELSE Raise("ValueError")

\* datetime.timestamp(): an aware datetime is its instant; a naive one is
\* read as local time of the host.
timestamp(d, zone) ==
    IF d.aware THEN d.hours - d.utcoffset ELSE d.hours - zone

\* datetime.utcnow(): the naive datetime showing UTC wall-clock time.
utcnow(now) == [aware |-> FALSE, hours |-> now, utcoffset |-> 0]

-----------------------------------------------------------------------------
(* UAInterface *)

Mut_is_activable_service(service) ==
    service.v["available"] = JStr("yes")

is_activable_service(service) ==
    /\ service.v["available"] = JStr("yes")
    /\ service.v["entitled"] = JStr("yes")

service_from_dict(service) ==
    [name |-> service.v["name"].v,
     description |-> service.v["description"].v,
     auto_enabled |-> service.v["auto_enabled"] = JStr("yes")]

RECURSIVE activable_services(_)
activable_services(services) ==
    IF services = <<>> THEN <<>>
    ELSE (IF is_activable_service(Head(services))
          THEN <<service_from_dict(Head(services))>> ELSE <<>>)
         \o activable_services(Tail(services))

UbuntuProSubscription(info, token) ==
    [t |-> "UbuntuProSubscription",
     v |-> [account_name |-> info.v["account"].v["name"].v,
            contract_name |-> info.v["contract"].v["name"].v,
            contract_token |-> token,
            services |-> activable_services(info.v["services"].v)]]

Mut_is_expired(expiration, now, zone) ==
    timestamp(expiration, zone) < timestamp(utcnow(now), zone)

\* Line 191.
is_expired(expiration, now, zone) ==
    timestamp(expiration, zone) <= timestamp(utcnow(now), zone)

Mut_get_subscription_status(query) ==
    IF query.kind = "return" THEN query
    ELSE CheckSubscriptionError(query.token, UnableMessage)

\* Line 178.
get_subscription_status(query) == query

\* Lines 185-220, given what the awaited get_subscription_status gave.
get_subscription(token, status, now, zone) ==
    IF status.kind # "return" THEN status
    ELSE LET info == status.value IN
         IF info.t # "obj" THEN Raise("TypeError")
         ELSE IF ~HasKey(info, "expires") THEN Raise("KeyError")
         ELSE LET expiration ==
                    fromisoformat(normalize_expires(info.v["expires"].v))
              IN IF expiration.kind # "return" THEN Raise("ValueError")
                 ELSE IF is_expired(expiration.value, now, zone)
                 THEN ExpiredTokenError(token, info.v["expires"])
                 ELSE IF \E k \in {"services", "account", "contract"} :
                            ~HasKey(info, k)
                 THEN Raise("KeyError")
                 ELSE Return(UbuntuProSubscription(info, token))

-----------------------------------------------------------------------------
(* Inputs *)

Ops == {"get_subscription", "get_subscription_status"}

Tokens == SeqsUpTo(TokenChars, MaxTokenLen)
ShortTokens == SeqsUpTo(TokenChars, 1)

ErrInvalid == JObj([message_code |-> JStr(InvalidTokenCode), message |-> JStr("m")])
ErrInvalidNoMessage == JObj([message_code |-> JStr(InvalidTokenCode)])
ErrOther == JObj([message_code |-> JStr("attach-failure"), message |-> JStr("m")])
ErrOtherNoMessage == JObj([message_code |-> JStr("attach-failure")])
ErrNoCode == JObj([message |-> JStr("m")])
ErrNotDict == JStr(<<"e">>)

ErrorEntries ==
    {ErrInvalid, ErrInvalidNoMessage, ErrOther, ErrOtherNoMessage, ErrNoCode,
     ErrNotDict}

ErrorDocs ==
    {JObj([errors |-> JList(es)]) : es \in SeqsUpTo(ErrorEntries, MaxErrors)}

EmptyDict == JObj([k \in {} |-> JNull])

OddDocs ==
    {JNull, JList(<<>>), EmptyDict,
     JObj([errors |-> JNull]), JObj([errors |-> JStr(<<>>)]),
     JObj([errors |-> JStr(<<"e">>)]), JObj([errors |-> EmptyDict]),
     JObj([errors |-> ErrInvalid])}

SampleInfos ==
    {Info(<<"T3", "Z">>, <<Service("esm-infra", "yes", "yes", "no")>>),
     JObj([expires |-> JStr(<<"T3", "Z">>)])}

ExitCodes == {0, 1, 2}

Procs(codes, docs) ==
    [returncode : codes, stdout : {NotJson} \cup {JsonText(d) : d \in docs}]

-----------------------------------------------------------------------------
(* The coroutines *)

NoProc == [returncode |-> 0 - 1, stdout |-> NotJson]
NoTime == 0 - 1

Idle ==
    [pc |-> "idle", op |-> "none", token |-> <<>>, command |-> <<>>,
     proc |-> NoProc, query |-> Pending, outcome |-> Pending, now |-> NoTime]

\* The rest of the coroutine once strategy.query_info has ended with
\* `query`: everything up to the return or raise runs without suspending.
Finish(c, proc, query) ==
    LET call == calls[c]
        status == get_subscription_status(query)
        outcome == IF call.op = "get_subscription_status" THEN status
                   ELSE get_subscription(call.token, status, clock, tz)
        read == call.op = "get_subscription" /\ status.kind = "return"
    IN calls' = [calls EXCEPT ![c] =
                   [call EXCEPT !.pc = "done", !.proc = proc, !.query = query,
                                !.outcome = outcome,
                                !.now = IF read THEN clock ELSE NoTime]]

\* A caller awaits op(token): the coroutine runs to its first suspension.
Invoke(c, ops, tokens) ==
    /\ calls[c].pc = "idle"
    /\ \E op \in ops, token \in tokens :
         LET call == [calls[c] EXCEPT !.op = op, !.token = token] IN
         IF strategy = "mocked"
         THEN calls' = [calls EXCEPT ![c] = [call EXCEPT !.pc = "sleep"]]
         ELSE IF UAClient_runs_command(token)
         THEN calls' = [calls EXCEPT ![c] =
                          [call EXCEPT !.pc = "run", !.command = Command(token)]]
         ELSE LET query == InvalidTokenError(token)
                  status == get_subscription_status(query)
              IN calls' = [calls EXCEPT ![c] =
                     [call EXCEPT !.pc = "done", !.query = query,
                        !.outcome = IF op = "get_subscription_status" THEN status
                                    ELSE get_subscription(token, status, clock, tz)]]
    /\ UNCHANGED <<strategy, tz, clock>>

\* asyncio.sleep returns in the simulated strategy.
SleepDone(c) ==
    /\ calls[c].pc = "sleep"
    /\ Finish(c, NoProc, Mocked_query_info(calls[c].token))
    /\ UNCHANGED <<strategy, tz, clock>>

\* utils.arun_command returns the completed process.
CommandDone(c, procs) ==
    /\ calls[c].pc = "run"
    /\ \E proc \in procs : Finish(c, proc, UAClient_classify(calls[c].token, proc))
    /\ UNCHANGED <<strategy, tz, clock>>

\* The caller has its result; the coroutine object is gone.
Collect(c) ==
    /\ calls[c].pc = "done"
    /\ calls' = [calls EXCEPT ![c] = Idle]
    /\ UNCHANGED <<strategy, tz, clock>>

\* Time passes on the host.
Tick ==
    /\ clock < MaxClock
    /\ clock' = clock + 1
    /\ UNCHANGED <<strategy, tz, calls>>

-----------------------------------------------------------------------------
(* Spec: one call at a time on an interface built on either strategy; the  *)
(* command may exit with any code and print anything.                      *)

Init ==
    /\ strategy \in {"mocked", "uaclient"}
    /\ tz \in TimeZones
    /\ clock = MinClock
    /\ calls = [c \in {1} |-> Idle]

Next ==
    \/ Tick
    \/ \E c \in DOMAIN calls : Invoke(c, Ops, ShortTokens)
    \/ \E c \in DOMAIN calls : SleepDone(c)
    \/ \E c \in DOMAIN calls :
         CommandDone(c, Procs(ExitCodes, ErrorDocs \cup OddDocs \cup SampleInfos))
    \/ \E c \in DOMAIN calls : Collect(c)

Spec == Init /\ [][Next]_vars

-----------------------------------------------------------------------------
(* SpecMock: one call at a time on the simulated strategy, every token.    *)

InitMock ==
    /\ strategy = "mocked"
    /\ tz \in TimeZones
    /\ clock = MinClock
    /\ calls = [c \in {1} |-> Idle]

NextMock ==
    \/ Tick
    \/ \E c \in DOMAIN calls : Invoke(c, Ops, Tokens)
    \/ \E c \in DOMAIN calls : SleepDone(c)
    \/ \E c \in DOMAIN calls : Collect(c)

SpecMock == InitMock /\ [][NextMock]_vars

-----------------------------------------------------------------------------
(* SpecConc: MaxCalls coroutines in flight on one interface.               *)

\* The command prints a record and exits with 0, or reports errors and
\* exits with 1.
ConcProcs ==
    {[returncode |-> 0,
      stdout |-> JsonText(Info(<<"T3", "Z">>,
                               <<Service("esm-infra", "yes", "yes", "no")>>))],
     [returncode |-> 1,
      stdout |-> JsonText(JObj([errors |-> JList(<<ErrInvalid>>)]))],
     [returncode |-> 1, stdout |-> JsonText(JObj([errors |-> JNull]))]}

InitConc ==
    /\ strategy \in {"mocked", "uaclient"}
    /\ tz \in TimeZones
    /\ clock = MinClock
    /\ calls = [c \in 1..MaxCalls |-> Idle]

NextConc ==
    \/ Tick
    \/ \E c \in DOMAIN calls : Invoke(c, Ops, ShortTokens)
    \/ \E c \in DOMAIN calls : SleepDone(c)
    \/ \E c \in DOMAIN calls : CommandDone(c, ConcProcs)
    \/ \E c \in DOMAIN calls : Collect(c)

SpecConc == InitConc /\ [][NextConc]_vars

-----------------------------------------------------------------------------
(* SpecIdem: MaxCalls coroutines in flight on the simulated strategy.      *)

InitIdem ==
    /\ strategy = "mocked"
    /\ tz \in TimeZones
    /\ clock = MinClock
    /\ calls = [c \in 1..MaxCalls |-> Idle]

NextIdem ==
    \/ Tick
    \/ \E c \in DOMAIN calls : Invoke(c, Ops, ShortTokens)
    \/ \E c \in DOMAIN calls : SleepDone(c)
    \/ \E c \in DOMAIN calls : Collect(c)

SpecIdem == InitIdem /\ [][NextIdem]_vars

-----------------------------------------------------------------------------
(* SpecExp: get_subscription on records the command prints with exit code  *)
(* 0, over every form of `expires`.                                        *)

ExpiresBodies == {"T2", "T3", "T4"}

ExpiresStrings ==
    {<<b>> : b \in ExpiresBodies}
    \cup {<<b, "Z">> : b \in ExpiresBodies}
    \cup {<<b, sign, o>> : b \in ExpiresBodies, sign \in {"+", "-"},
                           o \in DOMAIN OffsetHours}
    \cup {<<"Z">>}

ExpInfos ==
    {Info(e, <<Service("esm-infra", "yes", "yes", "no")>>) : e \in ExpiresStrings}

InitExp ==
    /\ strategy = "uaclient"
    /\ tz \in TimeZones
    /\ clock = MinClock
    /\ calls = [c \in {1} |-> Idle]

NextExp ==
    \/ Tick
    \/ \E c \in DOMAIN calls : Invoke(c, {"get_subscription"}, ShortTokens)
    \/ \E c \in DOMAIN calls : CommandDone(c, Procs({0}, ExpInfos))
    \/ \E c \in DOMAIN calls : Collect(c)

SpecExp == InitExp /\ [][NextExp]_vars

-----------------------------------------------------------------------------
(* SpecSvc: get_subscription on records the command prints with exit code  *)
(* 0, over every `services` sequence of up to MaxServices services.        *)

YesNo == {"yes", "no"}

Services ==
    {Service(n, a, e, u) : n \in {"esm-infra", "fips"}, a \in YesNo,
                           e \in YesNo, u \in YesNo}

SvcInfos ==
    {Info(<<"T5", "Z">>, ss) : ss \in SeqsUpTo(Services, MaxServices)}

InitSvc ==
    /\ strategy = "uaclient"
    /\ tz \in TimeZones
    /\ clock = MinClock
    /\ calls = [c \in {1} |-> Idle]

NextSvc ==
    \/ Tick
    \/ \E c \in DOMAIN calls : Invoke(c, {"get_subscription"}, {<<"a">>, <<"x", "a">>})
    \/ \E c \in DOMAIN calls : CommandDone(c, Procs({0}, SvcInfos))
    \/ \E c \in DOMAIN calls : Collect(c)

SpecSvc == InitSvc /\ [][NextSvc]_vars

-----------------------------------------------------------------------------
(* Claims checked under Spec *)

Done(c) == calls[c].pc = "done"

\* C1: for the empty token query_info of either strategy fails with
\* InvalidTokenError carrying the token, and no call ever hands a command
\* with an empty token to arun_command (a call with the empty token never
\* waits for a command and never has run one).
C1_EmptyTokenInvalid ==
    \A c \in DOMAIN calls :
        /\ calls[c].command # <<>> => calls[c].command[Len(calls[c].command)] # <<>>
        /\ calls[c].pc = "run" => calls[c].command # <<>>
        /\ Done(c) /\ calls[c].token = <<>> =>
              /\ calls[c].query = InvalidTokenError(<<>>)
              /\ calls[c].command = <<>>
              /\ calls[c].proc = NoProc

C1_Witness ==
    \E c \in DOMAIN calls :
        Done(c) /\ calls[c].token = <<>> /\ strategy = "uaclient"

\* The `errors` list of the document the command printed, when it printed
\* a JSON object holding a list under `errors` (else the empty list).
ErrorsListOf(proc) ==
    IF /\ proc.stdout.t = "json"
       /\ HasKey(proc.stdout.v, "errors")
       /\ proc.stdout.v.v["errors"].t = "list"
    THEN proc.stdout.v.v["errors"].v
    ELSE <<>>

NamesInvalidToken(entry) ==
    /\ HasKey(entry, "message_code")
    /\ entry.v["message_code"] = JStr(InvalidTokenCode)

\* C3: executable-backed strategy, non-empty token, exit code 1, stdout a
\* JSON object with a list under `errors`: if any entry of the list has
\* message_code "attach-invalid-token", wherever it stands and whatever
\* the other entries hold, query_info fails with InvalidTokenError.
C3_AnyInvalidEntry ==
    \A c \in DOMAIN calls :
        ( /\ Done(c) /\ strategy = "uaclient" /\ calls[c].token # <<>>
          /\ calls[c].proc.returncode = 1
          /\ \E i \in 1..Len(ErrorsListOf(calls[c].proc)) :
                 NamesInvalidToken(ErrorsListOf(calls[c].proc)[i]) )
        => calls[c].query = InvalidTokenError(calls[c].token)

\* C4: executable-backed strategy, non-empty token: whatever the exit code
\* and stdout, query_info returns the parsed document (exit code 0,
\* parsable stdout), or fails with InvalidTokenError, or fails with
\* CheckSubscriptionError carrying the token and the fixed message;
\* nothing else escapes.
C4_OnlyClassifiedErrors ==
    \A c \in DOMAIN calls :
        (Done(c) /\ strategy = "uaclient" /\ calls[c].token # <<>>)
        => \/ /\ calls[c].proc.returncode = 0
              /\ calls[c].proc.stdout.t = "json"
              /\ calls[c].query = Return(calls[c].proc.stdout.v)
           \/ calls[c].query = InvalidTokenError(calls[c].token)
           \/ calls[c].query =
                 CheckSubscriptionError(calls[c].token, UnableMessage)

\* C8: get_subscription_status yields exactly what strategy.query_info
\* yielded; get_subscription raises the strategy's error unchanged when the
\* fetch failed; ExpiredTokenError is raised only after a successful fetch.
C8_ErrorsPropagateUnchanged ==
    \A c \in DOMAIN calls :
        Done(c) =>
            /\ calls[c].op = "get_subscription_status"
                  => calls[c].outcome = calls[c].query
            /\ calls[c].query.kind # "return"
                  => calls[c].outcome = calls[c].query
            /\ calls[c].outcome.kind = "ExpiredTokenError"
                  => calls[c].query.kind = "return"

C8_Witness ==
    \E c \in DOMAIN calls :
        /\ Done(c) /\ calls[c].op = "get_subscription"
        /\ calls[c].query.kind = "InvalidTokenError"
        /\ calls[c].token # <<>>
        /\ calls[c].outcome = calls[c].query

-----------------------------------------------------------------------------
(* Claim checked under SpecMock *)

\* C5: the simulated strategy yields nothing before the delay is over and
\* then classifies the token by its first character alone: empty ->
\* InvalidTokenError; x -> the expired fixture; i -> InvalidTokenError;
\* f -> CheckSubscriptionError; any other -> the valid fixture.
C5_FirstCharacterDecides ==
    \A c \in DOMAIN calls :
        LET token == calls[c].token
            query == calls[c].query
        IN /\ calls[c].pc = "sleep" => query = Pending
           /\ Done(c) =>
                /\ token = <<>> => query = InvalidTokenError(token)
                /\ token # <<>> /\ token[1] = "x" => query = Return(ExpiredFixture)
                /\ token # <<>> /\ token[1] = "i" => query = InvalidTokenError(token)
                /\ token # <<>> /\ token[1] = "f" =>
                      /\ query.kind = "CheckSubscriptionError"
                      /\ query.token = token
                /\ token # <<>> /\ token[1] \notin {"x", "i", "f"} =>
                      query = Return(ValidFixture)

C5_Witness ==
    \E c \in DOMAIN calls :
        /\ Done(c) /\ calls[c].token = <<"x", "i">>
        /\ calls[c].query = Return(ExpiredFixture)

-----------------------------------------------------------------------------
(* Claims checked under SpecIdem and SpecConc *)

\* The instant the record's `expires` names.
ExpiryInstant(info) ==
    timestamp(fromisoformat(normalize_expires(info.v["expires"].v)).value, tz)

\* Whether the clock reading of call c's expiry check, dt.utcnow().timestamp(),
\* had reached the expiry of the record the call fetched.
ReadingAtOrAfterExpiry(c) ==
    ExpiryInstant(calls[c].query.value) <= calls[c].now - tz

OwnOutcome(call) ==
    LET query == IF strategy = "mocked" THEN Mocked_query_info(call.token)
                 ELSE IF call.token = <<>> THEN InvalidTokenError(call.token)
                 ELSE UAClient_classify(call.token, call.proc)
    IN IF call.op = "get_subscription_status" THEN query
       ELSE get_subscription(call.token, query, call.now, tz)

ClassifiedKinds ==
    {"InvalidTokenError", "ExpiredTokenError", "CheckSubscriptionError"}

\* C9: with several calls in flight, each call's outcome is decided by its
\* own token, its own strategy response and the time of its own expiry
\* check; a call that has not ended has no result, and one that has ended
\* has returned or failed with a classified error.  (No action changes
\* `strategy`: each leaves it UNCHANGED.)
C9_CallsIndependentAndClassified ==
    \A c \in DOMAIN calls :
        /\ ~Done(c) => calls[c].outcome = Pending
        /\ Done(c) =>
              /\ calls[c].outcome = OwnOutcome(calls[c])
              /\ calls[c].outcome.kind \in ClassifiedKinds \cup {"return"}

-----------------------------------------------------------------------------
(* Claims checked under SpecExp *)

Fetched(c) ==
    /\ Done(c) /\ calls[c].op = "get_subscription"
    /\ calls[c].query.kind = "return"

Parsable(info) ==
    fromisoformat(normalize_expires(info.v["expires"].v)).kind = "return"

HasOffset(info) ==
    fromisoformat(normalize_expires(info.v["expires"].v)).value.aware

\* C2: get_subscription returns a Subscription only when the record's
\* expiry is strictly after the current time of the check; when the expiry
\* is at or before it, in every time zone of the host and for every offset
\* in `expires`, it fails with ExpiredTokenError carrying the token and the
\* raw `expires` value.  Stated for the `expires` values that carry an
\* offset ("Z" or +hh:mm / -hh:mm) and so name an instant by themselves.
C2_SubscriptionOnlyBeforeExpiry ==
    \A c \in DOMAIN calls :
        (Fetched(c) /\ Parsable(calls[c].query.value)
                    /\ HasOffset(calls[c].query.value)) =>
            LET info == calls[c].query.value IN
            /\ calls[c].outcome.kind = "return" => ExpiryInstant(info) > calls[c].now
            /\ ExpiryInstant(info) <= calls[c].now =>
                  calls[c].outcome =
                      ExpiredTokenError(calls[c].token, info.v["expires"])

\* The record with its `expires` value written the other way: a trailing
\* "Z" as "+00:00", a trailing "+00:00" as "Z".
Rewritten(info) ==
    LET e == info.v["expires"].v
        other == IF e[Len(e)] = "Z" THEN <<e[1], "+", "00:00">>
                 ELSE <<e[1], "Z">>
    IN JObj([info.v EXCEPT !["expires"] = JStr(other)])

EndsInZOrZeroOffset(e) ==
    \/ Len(e) = 2 /\ e[2] = "Z"
    \/ Len(e) = 3 /\ e[2] = "+" /\ e[3] = "00:00"

\* C10: a record whose `expires` ends in Z and the record with the same
\* timestamp written with +00:00, checked at the same current time, both
\* pass the expiry check or both fail with ExpiredTokenError.
C10_ZSameAsZeroOffset ==
    \A c \in DOMAIN calls :
        (Fetched(c) /\ EndsInZOrZeroOffset(calls[c].query.value.v["expires"].v)) =>
            LET twin == get_subscription(calls[c].token,
                                         Return(Rewritten(calls[c].query.value)),
                                         calls[c].now, tz)
            IN /\ calls[c].outcome.kind \in {"return", "ExpiredTokenError"}
               /\ twin.kind = calls[c].outcome.kind

C10_Witness ==
    \E c \in DOMAIN calls :
        /\ Fetched(c)
        /\ calls[c].query.value.v["expires"].v = <<"T3", "Z">>
        /\ calls[c].outcome.kind = "ExpiredTokenError"

-----------------------------------------------------------------------------
(* Claim checked under SpecSvc *)

ActivableAt(raw) ==
    {i \in 1..Len(raw) : /\ raw[i].v["available"] = JStr("yes")
                         /\ raw[i].v["entitled"] = JStr("yes")}

\* The k-th smallest member of a set of indices.
Nth(idx, k) == CHOOSE i \in idx : Cardinality({j \in idx : j < i}) = k - 1

\* C6: the services of the Subscription returned are the raw services with
\* available == "yes" and entitled == "yes", each once, in their raw order,
\* each as (name, description, auto_enabled == "yes").
C6_ActivableServicesInOrder ==
    \A c \in DOMAIN calls :
        (Fetched(c) /\ calls[c].outcome.kind = "return") =>
            LET raw == calls[c].query.value.v["services"].v
                got == calls[c].outcome.value.v.services
                idx == ActivableAt(raw)
            IN /\ Len(got) = Cardinality(idx)
               /\ \A k \in 1..Len(got) :
                     LET service == raw[Nth(idx, k)].v IN
                     got[k] = [name |-> service["name"].v,
                               description |-> service["description"].v,
                               auto_enabled |->
                                   service["auto_enabled"] = JStr("yes")]

C6_Witness ==
    \E c \in DOMAIN calls :
        /\ Fetched(c) /\ calls[c].outcome.kind = "return"
        /\ Len(calls[c].query.value.v["services"].v) = 2
        /\ ActivableAt(calls[c].query.value.v["services"].v) = {2}
        /\ Len(calls[c].outcome.value.v.services) = 1

====
